---- MODULE Spec2Model ----
(***************************************************************************)
(* A model of carbon-c-relay's aggregator (src/aggregator.c): one          *)
(* aggregator with its ring of buckets, producer threads calling           *)
(* aggregator_putmetric, the expiry thread aggregator_expire, the wall     *)
(* clock, the global keep_running flag and the thread calling              *)
(* aggregator_stop.                                                        *)
(*                                                                         *)
(* Every access to memory shared between threads that the code makes       *)
(* outside the bucketlock is a step of its own, so that the interleavings  *)
(* of the unlocked reads and writes are behaviours of the model.           *)
(***************************************************************************)
EXTENDS Integers, Sequences, FiniteSets, TLC

(* ------------------------------ bounds -------------------------------- *)

\* number of producer threads calling aggregator_putmetric
NumProducers == 2
\* total number of aggregator_putmetric calls in a behaviour
MaxCalls == 2
\* the value time() returned when the aggregator was built
T0 == 10
\* the clock runs from T0 to T0 + MaxTicks
MaxTicks == 6
\* number of aggregator_stop calls in a behaviour
MaxStops == 2

Producers == 1..NumProducers

\* lock holder ids: 0 is "unlocked", producers hold it under their own id
Sweeper == NumProducers + 1

\* <<interval, expire>> pairs the aggregator is built with
Configs == { <<1, 1>>, <<2, 1>> }

(* ------------------------- text and conversions ----------------------- *)

Digit == <<"0", "1", "2", "3", "4", "5", "6", "7", "8", "9">>

IsDigit(c) == \E i \in 1..10 : Digit[i] = c

DigitVal(c) == (CHOOSE i \in 1..10 : Digit[i] = c) - 1

IsSpace(c) == c \in {" ", "\n"}

\* decimal text of a natural number (how the senders write tokens)
RECURSIVE Fmt(_)
Fmt(n) == IF n < 10 THEN <<Digit[n + 1]>>
          ELSE Fmt(n \div 10) \o <<Digit[(n % 10) + 1]>>

\* strchr(s + (i-1), ch): index of the first ch at or after position i,
\* 0 for NULL.  Positions are 1-based; the string ends at Len(s).
RECURSIVE strchr(_, _, _)
strchr(s, i, ch) ==
    IF i > Len(s) THEN 0
    ELSE IF s[i] = ch THEN i
    ELSE strchr(s, i + 1, ch)

RECURSIVE SkipSpace(_, _)
SkipSpace(s, i) ==
    IF i <= Len(s) /\ IsSpace(s[i]) THEN SkipSpace(s, i + 1) ELSE i

RECURSIVE ParseDigits(_, _, _)
ParseDigits(s, i, acc) ==
    IF i <= Len(s) /\ IsDigit(s[i])
    THEN ParseDigits(s, i + 1, acc * 10 + DigitVal(s[i]))
    ELSE acc

\* atoll(s + (i-1)): skips white space, then reads decimal digits up to the
\* first character that is not one
atoll(s, i) == ParseDigits(s, SkipSpace(s, i), 0)

\* atof(s + (i-1)); the lines of this model carry integral tokens only, on
\* which atof reads the same digits as atoll
atof(s, i) == ParseDigits(s, SkipSpace(s, i), 0)

\* a 64-bit number that is not negative, as its decimal digits, first
\* digit first; <<>> is 0
RECURSIVE ParseDigits64(_, _, _)
ParseDigits64(s, i, acc) ==
    IF i <= Len(s) /\ IsDigit(s[i])
    THEN ParseDigits64(s, i + 1, Append(acc, DigitVal(s[i])))
    ELSE acc

\* atoll(s + (i-1)) with its long long result kept in full
atoll64(s, i) == ParseDigits64(s, SkipSpace(s, i), <<>>)

RECURSIVE DStrip(_)
DStrip(d) == IF Len(d) > 0 /\ d[1] = 0 THEN DStrip(Tail(d)) ELSE d

RECURSIVE DVal(_)
DVal(d) == IF d = <<>> THEN 0
           ELSE DVal(SubSeq(d, 1, Len(d) - 1)) * 10 + d[Len(d)]

\* d < n, for a small n
DLess(d, n) == Len(DStrip(d)) <= 9 /\ DVal(DStrip(d)) < n

\* d - n, for a small n that is not above d
RECURSIVE DSub(_, _)
DSub(d, n) ==
    IF d = <<>> THEN <<>>
    ELSE LET t == d[Len(d)] - n
             k == IF t >= 0 THEN 0 ELSE (9 - t) \div 10
         IN Append(DSub(SubSeq(d, 1, Len(d) - 1), k), t + 10 * k)

RECURSIVE DDivR(_, _, _)
DDivR(d, rem, iv) ==
    IF d = <<>> THEN <<>>
    ELSE LET cur == rem * 10 + d[1]
         IN <<cur \div iv>> \o DDivR(Tail(d), cur % iv, iv)

\* d / iv, for a small iv
DDiv(d, iv) == DDivR(d, 0, iv)

\* d modulo 2^32, as its two 16-bit halves
RECURSIVE DMod32(_, _, _)
DMod32(d, hi, lo) ==
    IF d = <<>> THEN <<hi, lo>>
    ELSE LET l == lo * 10 + d[1]
         IN DMod32(Tail(d), (hi * 10 + l \div 65536) % 65536, l % 65536)

\* the conversion of a long long to int: the low 32 bits, as a signed
\* number
ToInt(d) ==
    LET w == DMod32(d, 0, 0)
    IN IF w[1] >= 32768
       THEN (w[1] - 65536) * 65536 + w[2]
       ELSE w[1] * 65536 + w[2]

(* ------------------------------ inputs -------------------------------- *)

Name == <<"m">>

Line3(v, e) == Name \o <<" ">> \o Fmt(v) \o <<" ">> \o Fmt(e) \o <<"\n">>

Line2(v) == Name \o <<" ">> \o Fmt(v) \o <<"\n">>

Line1 == Name \o <<"\n">>

\* the lines producers hand to aggregator_putmetric
Metrics ==
    { Line1,
      Line2(T0 + 1),
      Line3(T0, T0),
      Line3(T0 + 1, T0 + 40),
      Line3(T0 + 40, T0 + 40),
      Line3(T0 - 1, T0 - 1) }

Text(ds) == [i \in 1..Len(ds) |-> Digit[ds[i] + 1]]

\* a line whose value and epoch are the same number, given by its digits
Line64(ds) == Name \o <<" ">> \o Text(ds) \o <<" ">> \o Text(ds) \o <<"\n">>

\* lines with epochs up to the largest long long
Metrics64 ==
    { Line64(<<9>>),
      Line64(<<1, 1>>),
      Line64(<<5, 0>>),
      Line64(<<2, 1, 4, 7, 4, 8, 3, 6, 5, 8>>),          \* 2^31 + 10
      Line64(<<4, 2, 9, 4, 9, 6, 7, 3, 0, 7>>),          \* 2^32 + 11
      Line64(<<4, 2, 9, 4, 9, 6, 7, 3, 9, 6>>),          \* 2^32 + 100
      Line64(<<8, 5, 8, 9, 9, 3, 4, 6, 0, 2>>),          \* 2^33 + 10
      Line64(<<9, 2, 2, 3, 3, 7, 2, 0, 3, 6, 8, 5, 4, 7, 7, 5, 8, 0, 7>>) }

\* the tokens of a line as its sender means them: the text between the
\* first and the second blank is the value, the text after the second blank
\* is the epoch
HasValue(m) == strchr(m, 1, " ") # 0

HasEpoch(m) == HasValue(m) /\ strchr(m, strchr(m, 1, " ") + 1, " ") # 0

ValueOf(m) == atoll(m, strchr(m, 1, " ") + 1)

EpochOf(m) == atoll(m, strchr(m, strchr(m, 1, " ") + 1, " ") + 1)

(* ------------------------------- state -------------------------------- *)

VARIABLES
    clock,          \* what time() returns
    keep_running,   \* the global shutdown flag
    interval,       \* s->interval
    expire,         \* s->expire
    bucketcnt,      \* s->bucketcnt
    buckets,        \* s->buckets: the array of bucket pointers
    bk,             \* the bucket objects: pointer -> fields
    received,       \* s->received
    sent,           \* s->sent
    dropped,        \* s->dropped
    bucketlock,     \* s->bucketlock: 0 or the holder
    metricsock,     \* the output stream: "open" or "closed"
    emitted,        \* the lines written to metricsock
    prod,           \* the locals of each aggregator_putmetric caller
    spc,            \* where aggregator_expire is
    now,            \* aggregator_expire's now
    b,              \* aggregator_expire's b
    c,              \* aggregator_expire's c, as an index in the computes
    stpc,           \* where the aggregator_stop caller is
    joined,         \* the expiry thread has been joined
    ub,             \* the undefined operations performed so far
    calls,          \* aggregator_putmetric calls made
    stops,          \* aggregator_stop calls made
    adm,            \* per bucket, the values added since it was last reset
    aggregators,    \* the list of aggregators, first to last
    nw,             \* the locals of the aggregator_new caller
    wide               \* the locals of the caller that sends 64-bit epochs

vars == <<clock, keep_running, interval, expire, bucketcnt, buckets, bk,
          received, sent, dropped, bucketlock, metricsock, emitted, prod,
          spc, now, b, c, stpc, joined, ub, calls, stops, adm, aggregators,
          nw, wide>>

\* what malloc leaves in a field nobody has written
Uninit == -1

\* the list s->computes, in list order
Computes == <<"SUM", "CNT", "MAX", "MIN", "AVG">>

(* --------------------------- aggregator_new --------------------------- *)

\* the start of buckets[0]: now - ((expire - 1) / interval) * interval.
\* The Configs have expire >= 1, so the unsigned expire - 1 does not wrap.
FirstStart(t, iv, ex) == t - ((ex - 1) \div iv) * iv

\* a ring sized by the rounded-up quotient
BucketCountCeil(iv, ex) == (ex + iv - 1) \div iv + 1 + 2

\* s->bucketcnt
BucketCount(iv, ex) == ex \div iv + 1 + 2

\* the bucket objects aggregator_new allocates, by pointer 1..bucketcnt
NewBuckets(t, iv, ex) ==
    [i \in 1..BucketCount(iv, ex) |->
        [start |-> FirstStart(t, iv, ex) + ((i - 1) * iv),
         cnt   |-> 0,
         sum   |-> Uninit,
         max   |-> Uninit,
         min   |-> Uninit]]

IdleProd == [pc |-> "idle", metric |-> <<>>, val |-> 0, epoch |-> 0,
             b0 |-> 0, slot |-> 0, ld |-> 0]

\* pointers: 0 is NULL, the one aggregator is 1, bucket i of the ring is i
NULL == 0

\* before aggregator_new is called
IdleNew == [pc |-> "idle", cfg |-> <<0, 0>>, ret |-> NULL, i |-> 0,
            failed |-> FALSE]

\* after aggregator_new has returned the aggregator
DoneNew(cfg) == [pc |-> "done", cfg |-> cfg, ret |-> 1,
                 i |-> BucketCount(cfg[1], cfg[2]), failed |-> FALSE]

\* before a line with a 64-bit epoch is delivered
IdleWide == [pc |-> "idle", metric |-> <<>>, val |-> <<>>, epoch |-> <<>>,
             b0 |-> 0, off |-> <<>>, slot |-> 0]

Init ==
    /\ clock = T0
    /\ keep_running = TRUE
    /\ \E cfg \in Configs :
          /\ interval = cfg[1]
          /\ expire = cfg[2]
          /\ bucketcnt = BucketCount(cfg[1], cfg[2])
          /\ buckets = [i \in 1..BucketCount(cfg[1], cfg[2]) |-> i]
          /\ bk = NewBuckets(T0, cfg[1], cfg[2])
          /\ adm = [i \in 1..BucketCount(cfg[1], cfg[2]) |-> <<>>]
          /\ nw = DoneNew(cfg)
    /\ aggregators = <<1>>
    /\ wide = IdleWide
    /\ received = 0
    /\ sent = 0
    /\ dropped = 0
    /\ bucketlock = 0
    /\ metricsock = "open"
    /\ emitted = <<>>
    /\ prod = [p \in Producers |-> IdleProd]
    /\ spc = "loop"
    /\ now = T0
    /\ b = 0
    /\ c = 0
    /\ stpc = "idle"
    /\ joined = FALSE
    /\ ub = {}
    /\ calls = 0
    /\ stops = 0

\* the state before the configuration is read: no aggregator exists
InitNew ==
    /\ clock = T0
    /\ keep_running = TRUE
    /\ interval = 0
    /\ expire = 0
    /\ bucketcnt = 0
    /\ buckets = <<>>
    /\ bk = <<>>
    /\ adm = <<>>
    /\ nw = IdleNew
    /\ aggregators = <<>>
    /\ wide = IdleWide
    /\ received = 0
    /\ sent = 0
    /\ dropped = 0
    /\ bucketlock = 0
    /\ metricsock = "open"
    /\ emitted = <<>>
    /\ prod = [p \in Producers |-> IdleProd]
    /\ spc = "loop"
    /\ now = T0
    /\ b = 0
    /\ c = 0
    /\ stpc = "idle"
    /\ joined = FALSE
    /\ ub = {}
    /\ calls = 0
    /\ stops = 0

\* ret = malloc(sizeof(aggregator)); if (ret == NULL) return ret
new_alloc ==
    /\ nw.pc = "idle"
    /\ \E cfg \in Configs, ok \in BOOLEAN :
          nw' = IF ok
                THEN [nw EXCEPT !.pc = "init", !.cfg = cfg, !.ret = 1]
                ELSE [nw EXCEPT !.pc = "done", !.cfg = cfg, !.ret = NULL,
                                !.failed = TRUE]
    /\ UNCHANGED <<clock, keep_running, interval, expire, bucketcnt, buckets,
                   bk, received, sent, dropped, bucketlock, metricsock,
                   emitted, prod, spc, now, b, c, stpc, joined, ub, calls,
                   stops, adm, aggregators, wide>>

\* the aggregator is appended to the list, then its fields are set
new_init ==
    /\ nw.pc = "init"
    /\ aggregators' = Append(aggregators, nw.ret)
    /\ interval' = nw.cfg[1]
    /\ expire' = nw.cfg[2]
    /\ received' = 0
    /\ sent' = 0
    /\ dropped' = 0
    /\ bucketlock' = 0
    /\ bucketcnt' = BucketCount(nw.cfg[1], nw.cfg[2])
    /\ nw' = [nw EXCEPT !.pc = "array"]
    /\ UNCHANGED <<clock, keep_running, buckets, bk, metricsock, emitted,
                   prod, spc, now, b, c, stpc, joined, ub, calls, stops, adm,
                   wide>>

\* ret->buckets = malloc(...): the result is not tested; the entries of a
\* new array point nowhere
new_alloc_array ==
    /\ nw.pc = "array"
    /\ \E ok \in BOOLEAN :
          /\ buckets' = IF ok THEN [i \in 1..bucketcnt |-> NULL] ELSE <<>>
          /\ nw' = [nw EXCEPT !.pc = "loop", !.failed = ~ok]
    /\ UNCHANGED <<clock, keep_running, interval, expire, bucketcnt, bk,
                   received, sent, dropped, bucketlock, metricsock, emitted,
                   prod, spc, now, b, c, stpc, joined, ub, calls, stops, adm,
                   aggregators, wide>>

\* one round of the for loop: ret->buckets[i] = malloc(...), not tested,
\* then ->start and ->cnt are set through the pointer.  The store into an
\* array that was not allocated, and the store through a bucket pointer
\* that is NULL, are undefined.
new_alloc_bucket ==
    /\ nw.pc = "loop"
    /\ nw.i < bucketcnt
    /\ IF buckets = <<>>
       THEN /\ ub' = ub \cup {"null_deref"}
            /\ nw' = [nw EXCEPT !.pc = "undefined"]
            /\ UNCHANGED <<buckets, bk, adm>>
       ELSE \E ok \in BOOLEAN :
               IF ok
               THEN /\ buckets' = [buckets EXCEPT ![nw.i + 1] = nw.i + 1]
                    /\ bk' = Append(bk,
                               [start |-> FirstStart(clock, interval, expire)
                                            + (nw.i * interval),
                                cnt   |-> 0,
                                sum   |-> Uninit,
                                max   |-> Uninit,
                                min   |-> Uninit])
                    /\ adm' = Append(adm, <<>>)
                    /\ nw' = [nw EXCEPT !.i = @ + 1]
                    /\ ub' = ub
               ELSE /\ ub' = ub \cup {"null_deref"}
                    /\ nw' = [nw EXCEPT !.pc = "undefined", !.failed = TRUE]
                    /\ UNCHANGED <<buckets, bk, adm>>
    /\ UNCHANGED <<clock, keep_running, interval, expire, bucketcnt,
                   received, sent, dropped, bucketlock, metricsock, emitted,
                   prod, spc, now, b, c, stpc, joined, calls, stops,
                   aggregators, wide>>

\* return ret, at the end of the loop; also where a call that went through
\* an undefined store and was not stopped by it arrives
new_return ==
    /\ \/ nw.pc = "loop" /\ nw.i = bucketcnt
       \/ nw.pc = "undefined"
    /\ nw' = [nw EXCEPT !.pc = "done"]
    /\ UNCHANGED <<clock, keep_running, interval, expire, bucketcnt, buckets,
                   bk, received, sent, dropped, bucketlock, metricsock,
                   emitted, prod, spc, now, b, c, stpc, joined, ub, calls,
                   stops, adm, aggregators, wide>>

aggregator_new ==
    \/ new_alloc
    \/ new_init
    \/ new_alloc_array
    \/ new_alloc_bucket
    \/ new_return

\* aggregator_new has returned an aggregator and no allocation failed
Constructed == nw.pc = "done" /\ nw.ret # NULL /\ ~nw.failed

(* ------------------------ aggregator_putmetric ------------------------ *)

\* v = strchr(metric, ' ')
ParseV(m) == strchr(m, 1, " ")

\* t = strchr(v, ' '): the search starts at v itself
ParseT(m) == IF ParseV(m) = 0 THEN 0 ELSE strchr(m, ParseV(m), " ")

\* the test that makes aggregator_putmetric return at once
Rejected(m) == ParseV(m) = 0 \/ ParseT(m) = 0

\* val = atof(v + 1)
ParseVal(m) == atof(m, ParseV(m) + 1)

\* epoch = atoll(t + 1)
ParseEpoch(m) == atoll(m, ParseT(m) + 1)

\* the bucket after one more value: the body of the critical section
AddValue(bucket, val) ==
    IF bucket.cnt = 0
    THEN [bucket EXCEPT !.cnt = 1, !.sum = val, !.max = val, !.min = val]
    ELSE [bucket EXCEPT !.cnt = @ + 1,
                        !.sum = @ + val,
                        !.max = IF @ < val THEN val ELSE @,
                        !.min = IF @ > val THEN val ELSE @]

\* the call and the parse of the line: only locals are touched
put_call(p) ==
    /\ prod[p].pc = "idle"
    /\ calls < MaxCalls
    /\ stops = 0
    /\ \E m \in Metrics :
          prod' = [prod EXCEPT ![p] =
                      IF Rejected(m)
                      THEN IdleProd
                      ELSE [IdleProd EXCEPT !.pc = "rd_b0",
                                            !.metric = m,
                                            !.val = ParseVal(m),
                                            !.epoch = ParseEpoch(m)]]
    /\ calls' = calls + 1
    /\ UNCHANGED <<clock, keep_running, interval, expire, bucketcnt, buckets,
                   bk, received, sent, dropped, bucketlock, metricsock,
                   emitted, spc, now, b, c, stpc, joined, ub, stops, adm,
                   aggregators, nw, wide>>

\* the load of s->buckets[0], without the lock
put_rd_b0(p) ==
    /\ prod[p].pc = "rd_b0"
    /\ prod' = [prod EXCEPT ![p].pc = "rd_start", ![p].b0 = buckets[1]]
    /\ UNCHANGED <<clock, keep_running, interval, expire, bucketcnt, buckets,
                   bk, received, sent, dropped, bucketlock, metricsock,
                   emitted, spc, now, b, c, stpc, joined, ub, calls, stops,
                   adm,
                   aggregators, nw, wide>>

\* the load of ->start, without the lock, and the two range tests; the
\* epochs of Metrics are small enough for the quotient to fit the int slot
put_rd_start(p) ==
    /\ prod[p].pc = "rd_start"
    /\ LET off  == prod[p].epoch - bk[prod[p].b0].start
           slot == off \div interval
       IN prod' = [prod EXCEPT
                     ![p].epoch = off,
                     ![p].slot = IF off < 0 THEN 0 ELSE slot,
                     ![p].pc = IF off < 0 THEN "drop_ld"
                               ELSE IF slot >= bucketcnt THEN "drop_ld"
                               ELSE "lock"]
    /\ UNCHANGED <<clock, keep_running, interval, expire, bucketcnt, buckets,
                   bk, received, sent, dropped, bucketlock, metricsock,
                   emitted, spc, now, b, c, stpc, joined, ub, calls, stops,
                   adm,
                   aggregators, nw, wide>>

\* s->dropped++ is a load and a store, made without the lock
put_drop_ld(p) ==
    /\ prod[p].pc = "drop_ld"
    /\ prod' = [prod EXCEPT ![p].pc = "drop_st", ![p].ld = dropped]
    /\ UNCHANGED <<clock, keep_running, interval, expire, bucketcnt, buckets,
                   bk, received, sent, dropped, bucketlock, metricsock,
                   emitted, spc, now, b, c, stpc, joined, ub, calls, stops,
                   adm,
                   aggregators, nw, wide>>

put_drop_st(p) ==
    /\ prod[p].pc = "drop_st"
    /\ dropped' = prod[p].ld + 1
    /\ prod' = [prod EXCEPT ![p] = IdleProd]
    /\ UNCHANGED <<clock, keep_running, interval, expire, bucketcnt, buckets,
                   bk, received, sent, bucketlock, metricsock, emitted, spc,
                   now, b, c, stpc, joined, ub, calls, stops, adm,
                   aggregators, nw, wide>>

\* pthread_mutex_lock(&s->bucketlock)
put_lock(p) ==
    /\ prod[p].pc = "lock"
    /\ bucketlock = 0
    /\ bucketlock' = p
    /\ prod' = [prod EXCEPT ![p].pc = "update"]
    /\ UNCHANGED <<clock, keep_running, interval, expire, bucketcnt, buckets,
                   bk, received, sent, dropped, metricsock, emitted, spc,
                   now, b, c, stpc, joined, ub, calls, stops, adm,
                   aggregators, nw, wide>>

\* the critical section and the unlock
put_update(p) ==
    /\ prod[p].pc = "update"
    /\ bucketlock = p
    /\ LET bucket == buckets[prod[p].slot + 1]
       IN /\ bk' = [bk EXCEPT ![bucket] = AddValue(@, prod[p].val)]
          /\ adm' = [adm EXCEPT ![bucket] = Append(@, prod[p].val)]
    /\ received' = received + 1
    /\ bucketlock' = 0
    /\ prod' = [prod EXCEPT ![p] = IdleProd]
    /\ UNCHANGED <<clock, keep_running, interval, expire, bucketcnt, buckets,
                   sent, dropped, metricsock, emitted, spc, now, b, c, stpc,
                   joined, ub, calls, stops,
                   aggregators, nw, wide>>

aggregator_putmetric(p) ==
    \/ put_call(p)
    \/ put_rd_b0(p)
    \/ put_rd_start(p)
    \/ put_drop_ld(p)
    \/ put_drop_st(p)
    \/ put_lock(p)
    \/ put_update(p)

\* The same function for a caller whose line carries an epoch of up to 64
\* bits: epoch is a long long, slot an int.  One such line is delivered.
put64_call ==
    /\ wide.pc = "idle"
    /\ \E m \in Metrics64 :
          wide' = IF Rejected(m)
                  THEN [IdleWide EXCEPT !.pc = "done"]
                  ELSE [IdleWide EXCEPT !.pc = "rd_b0",
                                        !.metric = m,
                                        !.val = atoll64(m, ParseV(m) + 1),
                                        !.epoch = atoll64(m, ParseT(m) + 1)]
    /\ UNCHANGED <<clock, keep_running, interval, expire, bucketcnt, buckets,
                   bk, received, sent, dropped, bucketlock, metricsock,
                   emitted, prod, spc, now, b, c, stpc, joined, ub, calls,
                   stops, adm, aggregators, nw>>

\* the load of s->buckets[0], without the lock
put64_rd_b0 ==
    /\ wide.pc = "rd_b0"
    /\ wide' = [wide EXCEPT !.pc = "rd_start", !.b0 = buckets[1]]
    /\ UNCHANGED <<clock, keep_running, interval, expire, bucketcnt, buckets,
                   bk, received, sent, dropped, bucketlock, metricsock,
                   emitted, prod, spc, now, b, c, stpc, joined, ub, calls,
                   stops, adm, aggregators, nw>>

\* epoch -= start in long long; slot = epoch / s->interval converted to
\* int; slot >= s->bucketcnt.  The type of bucketcnt is declared in
\* aggregator.h: with a signed type a negative slot passes the test, with
\* an unsigned one of int's width or more it is dropped.
put64_rd_start ==
    /\ wide.pc = "rd_start"
    /\ IF DLess(wide.epoch, bk[wide.b0].start)
       THEN wide' = [wide EXCEPT !.pc = "drop"]
       ELSE LET off  == DSub(wide.epoch, bk[wide.b0].start)
                slot == ToInt(DDiv(off, interval))
            IN \E signedcnt \in BOOLEAN :
                  wide' = [wide EXCEPT
                             !.off = off,
                             !.slot = slot,
                             !.pc = IF slot >= bucketcnt THEN "drop"
                                    ELSE IF slot < 0 /\ ~signedcnt THEN "drop"
                                    ELSE "lock"]
    /\ UNCHANGED <<clock, keep_running, interval, expire, bucketcnt, buckets,
                   bk, received, sent, dropped, bucketlock, metricsock,
                   emitted, prod, spc, now, b, c, stpc, joined, ub, calls,
                   stops, adm, aggregators, nw>>

\* s->dropped++; return: this caller is the only one
put64_drop ==
    /\ wide.pc = "drop"
    /\ dropped' = dropped + 1
    /\ wide' = [wide EXCEPT !.pc = "done"]
    /\ UNCHANGED <<clock, keep_running, interval, expire, bucketcnt, buckets,
                   bk, received, sent, bucketlock, metricsock, emitted, prod,
                   spc, now, b, c, stpc, joined, ub, calls, stops, adm,
                   aggregators, nw>>

\* pthread_mutex_lock(&s->bucketlock)
put64_lock ==
    /\ wide.pc = "lock"
    /\ bucketlock = 0
    /\ bucketlock' = 1
    /\ wide' = [wide EXCEPT !.pc = "update"]
    /\ UNCHANGED <<clock, keep_running, interval, expire, bucketcnt, buckets,
                   bk, received, sent, dropped, metricsock, emitted, prod,
                   spc, now, b, c, stpc, joined, ub, calls, stops, adm,
                   aggregators, nw>>

\* the critical section and the unlock; s->buckets[slot] with a slot
\* outside the array is undefined
put64_update ==
    /\ wide.pc = "update"
    /\ bucketlock = 1
    /\ IF 0 <= wide.slot /\ wide.slot < bucketcnt
       THEN LET bucket == buckets[wide.slot + 1]
            IN /\ bk' = [bk EXCEPT ![bucket] = AddValue(@, wide.val)]
               /\ adm' = [adm EXCEPT ![bucket] = Append(@, wide.val)]
               /\ ub' = ub
       ELSE /\ ub' = ub \cup {"bucket_out_of_bounds"}
            /\ UNCHANGED <<bk, adm>>
    /\ received' = received + 1
    /\ bucketlock' = 0
    /\ wide' = [wide EXCEPT !.pc = "done"]
    /\ UNCHANGED <<clock, keep_running, interval, expire, bucketcnt, buckets,
                   sent, dropped, metricsock, emitted, prod, spc, now, b, c,
                   stpc, joined, calls, stops, aggregators, nw>>

aggregator_putmetric64 ==
    \/ put64_call
    \/ put64_rd_b0
    \/ put64_rd_start
    \/ put64_drop
    \/ put64_lock
    \/ put64_update

(* ------------------------- aggregator_expire -------------------------- *)

\* a stamp that names the start of the window
EmitStampAtStart(bucket) == bucket.start

\* the third field of an output line: b->start + s->interval
EmitStamp(bucket) == bucket.start + interval

\* the line fprintf writes for one compute; num/den is the number printed
EmitLine(type, bucket) ==
    [type |-> type,
     num  |-> CASE type = "SUM" -> bucket.sum
                [] type = "CNT" -> bucket.cnt
                [] type = "MAX" -> bucket.max
                [] type = "MIN" -> bucket.min
                [] type = "AVG" -> bucket.sum,
     den  |-> IF type = "AVG" THEN bucket.cnt ELSE 1,
     ts   |-> EmitStamp(bucket)]

\* a test that also closes the window whose grace period ends just now
ExpiredOrDue(bucket) == bucket.start + interval <= now - expire

\* the test of the inner while loop
Expired(bucket) == bucket.start + interval < now - expire

\* memmove(&buckets[0], &buckets[1], ...) and buckets[bucketcnt - 1] = b
Rotate(ring, ptr) ==
    [i \in 1..Len(ring) |-> IF i < Len(ring) THEN ring[i + 1] ELSE ptr]

\* a recycled bucket restarted one interval after its own old start
RecycledStartOwn(ring) == bk[ring[1]].start + interval

\* b->start = s->buckets[s->bucketcnt - 2]->start + s->interval, read after
\* the memmove: the start of the bucket that was last
RecycledStart(ring) == bk[ring[Len(ring)]].start + interval

\* while (keep_running): the test of the flag
expire_loop ==
    /\ spc = "loop"
    /\ spc' = IF keep_running THEN "sleep" ELSE "done"
    /\ UNCHANGED <<clock, keep_running, interval, expire, bucketcnt, buckets,
                   bk, received, sent, dropped, bucketlock, metricsock,
                   emitted, prod, now, b, c, stpc, joined, ub, calls, stops,
                   adm,
                   aggregators, nw, wide>>

\* sleep(1); now = time(NULL)
expire_wake ==
    /\ spc = "sleep"
    /\ now' = clock
    /\ spc' = "while"
    /\ UNCHANGED <<clock, keep_running, interval, expire, bucketcnt, buckets,
                   bk, received, sent, dropped, bucketlock, metricsock,
                   emitted, prod, b, c, stpc, joined, ub, calls, stops, adm,
                   aggregators, nw, wide>>

\* the test of the inner while loop; s->next is NULL after the one aggregator
expire_while ==
    /\ spc = "while"
    /\ IF Expired(bk[buckets[1]])
       THEN /\ b' = buckets[1]
            /\ c' = 1
            /\ spc' = "emit"
       ELSE /\ b' = 0
            /\ c' = 0
            /\ spc' = "flush"
    /\ UNCHANGED <<clock, keep_running, interval, expire, bucketcnt, buckets,
                   bk, received, sent, dropped, bucketlock, metricsock,
                   emitted, prod, now, stpc, joined, ub, calls, stops, adm,
                   aggregators, nw, wide>>

\* one fprintf of the for loop over s->computes; the fields of b are read
\* without the lock
expire_emit ==
    /\ spc = "emit"
    /\ IF metricsock = "open"
       THEN /\ emitted' = Append(emitted, EmitLine(Computes[c], bk[b]))
            /\ ub' = ub
       ELSE /\ emitted' = emitted
            /\ ub' = ub \cup {"write_closed"}
    /\ IF c < Len(Computes)
       THEN /\ c' = c + 1
            /\ spc' = "emit"
       ELSE /\ c' = 0
            /\ spc' = "lock"
    /\ UNCHANGED <<clock, keep_running, interval, expire, bucketcnt, buckets,
                   bk, received, sent, dropped, bucketlock, metricsock, prod,
                   now, b, stpc, joined, calls, stops, adm,
                   aggregators, nw, wide>>

\* pthread_mutex_lock(&s->bucketlock)
expire_lock ==
    /\ spc = "lock"
    /\ bucketlock = 0
    /\ bucketlock' = Sweeper
    /\ spc' = "rotate"
    /\ UNCHANGED <<clock, keep_running, interval, expire, bucketcnt, buckets,
                   bk, received, sent, dropped, metricsock, emitted, prod,
                   now, b, c, stpc, joined, ub, calls, stops, adm,
                   aggregators, nw, wide>>

\* the critical section and the unlock
expire_rotate ==
    /\ spc = "rotate"
    /\ bucketlock = Sweeper
    /\ sent' = sent + 1
    /\ buckets' = Rotate(buckets, b)
    /\ bk' = [bk EXCEPT ![b].cnt = 0, ![b].start = RecycledStart(buckets)]
    /\ adm' = [adm EXCEPT ![b] = <<>>]
    /\ bucketlock' = 0
    /\ b' = 0
    /\ spc' = "while"
    /\ UNCHANGED <<clock, keep_running, interval, expire, bucketcnt,
                   received, dropped, metricsock, emitted, prod, now, c, stpc,
                   joined, ub, calls, stops,
                   aggregators, nw, wide>>

\* fflush(metricsock)
expire_flush ==
    /\ spc = "flush"
    /\ ub' = IF metricsock = "open" THEN ub ELSE ub \cup {"flush_closed"}
    /\ spc' = "loop"
    /\ UNCHANGED <<clock, keep_running, interval, expire, bucketcnt, buckets,
                   bk, received, sent, dropped, bucketlock, metricsock,
                   emitted, prod, now, b, c, stpc, joined, calls, stops, adm,
                   aggregators, nw, wide>>

aggregator_expire ==
    \/ expire_loop
    \/ expire_wake
    \/ expire_while
    \/ expire_emit
    \/ expire_lock
    \/ expire_rotate
    \/ expire_flush

(* --------------------------- the environment -------------------------- *)

\* a second passes
Tick ==
    /\ clock < T0 + MaxTicks
    /\ clock' = clock + 1
    /\ UNCHANGED <<keep_running, interval, expire, bucketcnt, buckets, bk,
                   received, sent, dropped, bucketlock, metricsock, emitted,
                   prod, spc, now, b, c, stpc, joined, ub, calls, stops, adm,
                   aggregators, nw, wide>>

\* the relay clears keep_running
Shutdown ==
    /\ keep_running
    /\ keep_running' = FALSE
    /\ UNCHANGED <<clock, interval, expire, bucketcnt, buckets, bk, received,
                   sent, dropped, bucketlock, metricsock, emitted, prod, spc,
                   now, b, c, stpc, joined, ub, calls, stops, adm,
                   aggregators, nw, wide>>

(* --------------------------- aggregator_stop -------------------------- *)

\* the relay calls aggregator_stop once no producer is in, or will enter,
\* aggregator_putmetric
stop_call ==
    /\ stpc = "idle"
    /\ stops < MaxStops
    /\ \A p \in Producers : prod[p].pc = "idle"
    /\ stops' = stops + 1
    /\ stpc' = "fclose"
    /\ UNCHANGED <<clock, keep_running, interval, expire, bucketcnt, buckets,
                   bk, received, sent, dropped, bucketlock, metricsock,
                   emitted, prod, spc, now, b, c, joined, ub, calls, adm,
                   aggregators, nw, wide>>

\* fclose(metricsock): on a stream that is closed already the behaviour is
\* undefined
stop_fclose ==
    /\ stpc = "fclose"
    /\ metricsock' = "closed"
    /\ ub' = IF metricsock = "open" THEN ub ELSE ub \cup {"fclose_closed"}
    /\ stpc' = "join"
    /\ UNCHANGED <<clock, keep_running, interval, expire, bucketcnt, buckets,
                   bk, received, sent, dropped, bucketlock, emitted, prod,
                   spc, now, b, c, joined, calls, stops, adm,
                   aggregators, nw, wide>>

\* pthread_join(aggregatorid, NULL): returns once the thread has ended; on a
\* thread that was joined already the behaviour is undefined
stop_join ==
    /\ stpc = "join"
    /\ IF joined
       THEN ub' = ub \cup {"join_joined"}
       ELSE spc = "done" /\ ub' = ub
    /\ joined' = TRUE
    /\ stpc' = "idle"
    /\ UNCHANGED <<clock, keep_running, interval, expire, bucketcnt, buckets,
                   bk, received, sent, dropped, bucketlock, metricsock,
                   emitted, prod, spc, now, b, c, calls, stops, adm,
                   aggregators, nw, wide>>

aggregator_stop ==
    \/ stop_call
    \/ stop_fclose
    \/ stop_join

(* ---------------------------- specification --------------------------- *)

\* an undefined operation may end the process: then nothing steps any more
Crashed == "crash" \in ub

Crash ==
    /\ ub # {}
    /\ ~Crashed
    /\ ub' = ub \cup {"crash"}
    /\ UNCHANGED <<clock, keep_running, interval, expire, bucketcnt, buckets,
                   bk, received, sent, dropped, bucketlock, metricsock,
                   emitted, prod, spc, now, b, c, stpc, joined, calls, stops,
                   adm,
                   aggregators, nw, wide>>

\* the running relay: producers, the expiry thread and the clock
Next ==
    \/ \E p \in Producers : aggregator_putmetric(p)
    \/ aggregator_expire
    \/ Tick

Spec == Init /\ [][Next]_vars

\* the shutdown of the relay: no producer calls any more, the flag is
\* cleared and aggregator_stop is called, while the expiry thread and the
\* clock go on
NextStop ==
    \/ ~Crashed /\ aggregator_expire
    \/ ~Crashed /\ Tick
    \/ ~Crashed /\ Shutdown
    \/ ~Crashed /\ aggregator_stop
    \/ Crash

SpecStop == Init /\ [][NextStop]_vars

\* the startup of the relay: the aggregator is constructed, and once that
\* has succeeded the expiry thread is started and the clock goes on
NextNew ==
    \/ ~Crashed /\ aggregator_new
    \/ Constructed /\ aggregator_expire
    \/ Constructed /\ Tick
    \/ Crash

SpecNew == InitNew /\ [][NextNew]_vars

\* the running relay with the one producer that sends 64-bit epochs
NextSlot ==
    \/ aggregator_putmetric64
    \/ aggregator_expire
    \/ Tick

SpecSlot == Init /\ [][NextSlot]_vars

\* the same shutdown where a thread that can run does run: the expiry
\* thread, and the thread inside aggregator_stop; a crashed process runs
\* nothing
SpecStopFair ==
    /\ SpecStop
    /\ WF_vars(~Crashed /\ aggregator_expire)
    /\ WF_vars(~Crashed /\ (stop_fclose \/ stop_join))

(* ------------------------------ claims -------------------------------- *)

RECURSIVE SeqSum(_)
SeqSum(q) == IF q = <<>> THEN 0 ELSE Head(q) + SeqSum(Tail(q))

SeqMax(q) == CHOOSE x \in {q[i] : i \in 1..Len(q)} :
                \A i \in 1..Len(q) : q[i] <= x

SeqMin(q) == CHOOSE x \in {q[i] : i \in 1..Len(q)} :
                \A i \in 1..Len(q) : q[i] >= x

\* the line l states the statistic l.type of the values vals
LineStates(l, vals) ==
    CASE l.type = "SUM" -> l.den = 1 /\ l.num = SeqSum(vals)
      [] l.type = "CNT" -> l.den = 1 /\ l.num = Len(vals)
      [] l.type = "MAX" -> l.den = 1 /\ l.num = SeqMax(vals)
      [] l.type = "MIN" -> l.den = 1 /\ l.num = SeqMin(vals)
      [] l.type = "AVG" -> l.den # 0 /\ l.num * Len(vals) = SeqSum(vals) * l.den

\* the lines written for the window that is being closed
LastGroup == SubSeq(emitted, Len(emitted) - Len(Computes) + 1, Len(emitted))

\* a step of producer p inside a call, or entering one
StepOf(p) == prod'[p] # prod[p]

\* a line whose two tokens are the same number: the value and the epoch
\* cannot be confused on it
SameTokens(m) == HasEpoch(m) /\ ValueOf(m) = EpochOf(m)

\* C1: when the sweeper closes a window to which samples were admitted, the
\* lines it has written for the window state the sum, the count, the
\* maximum, the minimum and the average of exactly the admitted values.
C1_EmittedMatchesAdmitted ==
    [][(spc = "rotate" /\ spc' = "while" /\ adm[b] # <<>>)
         => \A i \in 1..Len(Computes) : LineStates(LastGroup[i], adm[b])]_vars

\* C2: after the parse of a line with both tokens, val is the number of the
\* second token and epoch the number of the third token.
C2_EpochIsThirdToken ==
    \A p \in Producers :
        (prod[p].pc = "rd_b0" /\ HasEpoch(prod[p].metric))
            => /\ prod[p].val = ValueOf(prod[p].metric)
               /\ prod[p].epoch = EpochOf(prod[p].metric)

\* C3: no step of a call with a line that lacks the value or the epoch token
\* changes received, sent, dropped or a bucket.
C3_MalformedRejected ==
    [][\A p \in Producers :
          (StepOf(p) /\ ~HasEpoch(IF prod[p].pc = "idle"
                                  THEN prod'[p].metric ELSE prod[p].metric))
             => UNCHANGED <<received, sent, dropped, bk, buckets>>]_vars

RECURSIVE CountIn(_)
CountIn(ptrs) ==
    IF ptrs = {} THEN 0
    ELSE LET i == CHOOSE x \in ptrs : TRUE
         IN bk[i].cnt + CountIn(ptrs \ {i})

RECURSIVE CountOut(_)
CountOut(q) ==
    IF q = <<>> THEN 0
    ELSE (IF Head(q).type = "CNT" THEN Head(q).num ELSE 0) + CountOut(Tail(q))

\* no call is in progress and the sweeper is between two ticks
Quiescent ==
    /\ \A p \in Producers : prod[p].pc = "idle"
    /\ spc \in {"loop", "sleep"}

\* C4: at a quiescent point every admitted sample is either counted in a
\* bucket of the ring or in the COUNT line of an emitted window.
C4_NoAdmittedSampleLost ==
    Quiescent => received = CountIn(DOMAIN bk) + CountOut(emitted)

\* C5: the bucket a sample is added to holds, at that moment, the window
\* that contains the sample's epoch.
C5_CreditedToOwnWindow ==
    [][\A p \in Producers :
          (prod[p].pc = "update" /\ StepOf(p) /\ SameTokens(prod[p].metric))
             => \A i \in DOMAIN bk :
                   bk'[i] # bk[i]
                      => /\ bk[i].start <= EpochOf(prod[p].metric)
                         /\ EpochOf(prod[p].metric) < bk[i].start + interval]_vars

\* C6: the call that drops a sample older than buckets[0] raises dropped by
\* exactly one and changes neither received nor a bucket.
C6_StaleDropCountedOnce ==
    [][\A p \in Producers :
          (prod[p].pc = "drop_st" /\ StepOf(p) /\ prod[p].epoch < 0
              /\ SameTokens(prod[p].metric))
             => /\ dropped' = dropped + 1
                /\ UNCHANGED <<received, bk>>]_vars

\* the epoch e maps to a slot beyond the ring
BeyondRing(e) ==
    /\ e >= bk[buckets[1]].start
    /\ (e - bk[buckets[1]].start) \div interval >= bucketcnt

\* C7: no step of a call with a sample whose epoch maps beyond the ring
\* changes received, sent or a bucket.
C7_FutureSampleNotAdmitted ==
    [][\A p \in Producers :
          (prod[p].pc # "idle" /\ StepOf(p) /\ HasEpoch(prod[p].metric)
              /\ BeyondRing(EpochOf(prod[p].metric)))
             => UNCHANGED <<received, sent, bk>>]_vars

\* C8: the output is one group of lines per closed window, each group
\* holding one line per compute in list order stamped with the end of its
\* window, the groups are those of consecutive windows from the first one
\* on, sent counts the closed windows, and the oldest bucket of the ring is
\* the window after the last closed one.
C8_EachWindowEmittedOnce ==
    LET n  == Len(Computes)
        s0 == FirstStart(T0, interval, expire)
    IN /\ \A i \in 1..Len(emitted) :
             /\ emitted[i].type = Computes[((i - 1) % n) + 1]
             /\ emitted[i].ts = s0 + (((i - 1) \div n) + 1) * interval
       /\ Len(emitted) = sent * n + (CASE spc = "emit" -> c - 1
                                       [] spc \in {"lock", "rotate"} -> n
                                       [] OTHER -> 0)
       /\ bk[buckets[1]].start = s0 + sent * interval

\* two windows were closed while samples were being admitted
C8_Witness ==
    /\ sent = 2
    /\ received >= 1
    /\ \E p \in Producers : prod[p].pc # "idle"

Ceil(x, y) == (x + y - 1) \div y

\* C9 as stated: the ring holds ceil(expire / interval) + 3 buckets.
C9_RingIsCeilPlus3 ==
    /\ bucketcnt = Ceil(expire, interval) + 3
    /\ Len(buckets) = bucketcnt

\* C9 as amended: the ring holds floor(expire / interval) + 3 buckets, and
\* it always holds each of the buckets built by aggregator_new exactly once.
C9_RingIsFloorPlus3 ==
    /\ bucketcnt = (expire \div interval) + 3
    /\ Len(buckets) = bucketcnt
    /\ DOMAIN bk = 1..bucketcnt
    /\ \A i \in DOMAIN bk : \E j \in 1..Len(buckets) : buckets[j] = i

\* a ring whose expire is no multiple of its interval has been rotated
C9_Witness ==
    /\ expire % interval # 0
    /\ sent >= 1

\* C10: aggregator_stop never closes a stream that is closed nor joins a
\* thread that was joined.
C10_SecondStopHarmless ==
    /\ "fclose_closed" \notin ub
    /\ "join_joined" \notin ub

\* C12: the ring is sorted by start and consecutive buckets are exactly one
\* interval apart, so buckets[0] is the oldest window.
C12_RingSortedByInterval ==
    \A i \in 1..(Len(buckets) - 1) :
        bk[buckets[i + 1]].start = bk[buckets[i]].start + interval

\* the ring has been rotated while samples were admitted
C12_Witness ==
    /\ sent >= 2
    /\ received >= 1

\* C13: now changes only when the sweeper wakes; a window is emitted and
\* rotated only while start + interval < now - expire holds of it and it is
\* buckets[0]; the sweeper goes on to the flush only when buckets[0] does
\* not satisfy the condition; the start of buckets[0] never decreases.
C13_ClosesExactlyExpired ==
    [][/\ (now' # now => spc = "sleep")
       /\ (spc' \in {"emit", "lock", "rotate"}
             => /\ b' = buckets'[1]
                /\ bk'[b'].start + interval' < now' - expire')
       /\ (spc' = "flush"
             => ~(bk'[buckets'[1]].start + interval' < now' - expire'))
       /\ bk'[buckets'[1]].start >= bk[buckets[1]].start]_vars

\* the sweeper has closed two windows and moves on
C13_Witness ==
    /\ spc = "flush"
    /\ sent >= 2
    /\ Len(emitted) = sent * Len(Computes)

\* C14: no AVG line is the quotient of a sum by a count of zero.
C14_NoDivisionByZero ==
    \A i \in 1..Len(emitted) :
        emitted[i].type = "AVG" => emitted[i].den # 0

\* C15: the sweeper is never about to read a bucket without the lock while
\* a producer holds the lock to change that bucket.
C15_BucketAccessUnderLock ==
    \A p \in Producers :
        ~(/\ prod[p].pc = "update"
          /\ bucketlock = p
          /\ spc = "emit"
          /\ buckets[prod[p].slot + 1] = b)

\* C18: no SUM, MAX or MIN line carries a field that no sample of its
\* window has written.
C18_NoLeftoverValues ==
    \A i \in 1..Len(emitted) :
        emitted[i].type \in {"SUM", "MAX", "MIN"} => emitted[i].num # Uninit

\* C20: the sweeper never writes to or flushes the closed stream.
C20_NoWriteAfterClose ==
    /\ "write_closed" \notin ub
    /\ "flush_closed" \notin ub

\* C17: a sample whose epoch lies within the grace period, from the
\* current time minus the expiry up to the current time, is not dropped,
\* from construction onward.
C17_GraceSampleAdmitted ==
    \A p \in Producers :
        ~(/\ prod[p].pc \in {"drop_ld", "drop_st"}
          /\ SameTokens(prod[p].metric)
          /\ EpochOf(prod[p].metric) <= T0
          /\ clock - expire <= EpochOf(prod[p].metric))

\* C16: once keep_running is cleared the expiry thread ends, and a call of
\* aggregator_stop that is under way returns with the thread joined; no
\* window is written out unless it has expired.
C16_ShutdownTerminates ==
    /\ (~keep_running ~> spc = "done")
    /\ ((~keep_running /\ stpc # "idle") ~> (stpc = "idle" /\ joined))
    /\ [][emitted' # emitted
            => bk[b].start + interval < now - expire]_vars

\* C16 for the first call of aggregator_stop alone
C16_FirstStopReturns ==
    (~keep_running /\ stpc # "idle" /\ stops = 1) ~> (stpc = "idle" /\ joined)

\* C16 unless the process has crashed
C16_TerminatesUnlessCrashed ==
    /\ (~keep_running ~> (spc = "done" \/ Crashed))
    /\ ((~keep_running /\ stpc # "idle")
          ~> ((stpc = "idle" /\ joined) \/ Crashed))
    /\ [][emitted' # emitted
            => bk[b].start + interval < now - expire]_vars

\* C11: when an allocation of aggregator_new has failed, the call does not
\* go on to use the memory it did not get, and it ends returning NULL with
\* the list of aggregators left without the aggregator.
C11_AllocFailureReported ==
    /\ nw.failed => "null_deref" \notin ub
    /\ (nw.failed /\ nw.pc = "done")
          => (nw.ret = NULL /\ aggregators = <<>>)

\* the aggregator a call without failure has built is the one the running
\* relay starts from
C11_BuildsInit ==
    (Constructed /\ spc = "loop" /\ sent = 0 /\ clock = T0)
       => /\ bk = NewBuckets(T0, interval, expire)
          /\ buckets = [i \in 1..bucketcnt |-> i]
          /\ nw = DoneNew(<<interval, expire>>)
          /\ aggregators = <<1>>

\* C19: whatever the epoch of the line, the index with which the ring is
\* accessed is at least 0 and below the ring length, and it is the
\* quotient (epoch - start) / interval itself, not some wrapped remainder
\* of a quotient beyond the ring.
C19_SlotWithinRing ==
    wide.pc \in {"lock", "update"}
       => /\ 0 <= wide.slot
          /\ wide.slot < bucketcnt
          /\ DLess(DDiv(wide.off, interval), bucketcnt)

\* C19 for the sign of the index alone
C19_SlotNotNegative ==
    wide.pc \in {"lock", "update"} => 0 <= wide.slot

\* C19 for the wrapped quotient alone
C19_NoWrappedSlot ==
    (wide.pc \in {"lock", "update"} /\ 0 <= wide.slot)
       => DLess(DDiv(wide.off, interval), bucketcnt)

====
